---- MODULE Spec2Model ----
(***************************************************************************)
(* Model of the variable-size-entry LIFO stack of mjbalint/stack           *)
(* (src/include/stack.h, src/src/stack.c).                                 *)
(*                                                                         *)
(* A stack object is a record with the fields of struct stack_.  Pointers  *)
(* into the entry buffer are byte offsets from the start of buf.  The      *)
(* size field of an entry is a size_t stored in SizeW bytes, least         *)
(* significant byte first; size_t arithmetic is done modulo SizeMod.       *)
(* The widths and the buffer capacity are scaled down so that the state    *)
(* space is finite; unsigned int is RefBits wide.                          *)
(***************************************************************************)
EXTENDS Integers, Sequences, FiniteSets, TLC

(***************************************************************************)
(* Bounds of the model.                                                    *)
(***************************************************************************)
BufSize == 6        \* sizeof(stack_p->buf), scaled down from 1024
SizeW   == 2        \* sizeof(size_t) in bytes, scaled down from 8
RefBits == 2        \* width of unsigned int in bits, scaled down from 32

SizeMod == 256 ^ SizeW          \* size_t values are 0 .. SizeMod - 1
SIZE_MAX == SizeMod - 1

(***************************************************************************)
(* Stack operation return codes (stack_err_e).                             *)
(***************************************************************************)
STACK_E_OK           == 0
STACK_E_FULL         == 1
STACK_E_INVALID      == 2
STACK_E_NOMEM        == 3
STACK_E_EMPTY        == 4
STACK_E_INTERNAL     == 5
STACK_E_BUF_OVERFLOW == 6
STACK_E_MAX_REFCOUNT == 7
STACK_NUM_ERR        == 8

stack_err_e_is_valid(err) == (err >= 0) /\ (err < STACK_NUM_ERR)

stack_err_e_is_error(err) == err # STACK_E_OK

STACK_ERR_UNKNOWN_STR == "???"

\* Variant: the array was not extended when the last code was added.
stack_err_e_strings_short ==
    [e \in 0 .. (STACK_NUM_ERR - 2) |->
        CASE e = STACK_E_OK           -> "OK"
          [] e = STACK_E_FULL         -> "FULL"
          [] e = STACK_E_INVALID      -> "INVALID"
          [] e = STACK_E_NOMEM        -> "NOMEM"
          [] e = STACK_E_EMPTY        -> "EMPTY"
          [] e = STACK_E_INTERNAL     -> "INTERNAL"
          [] e = STACK_E_BUF_OVERFLOW -> "BUFOVERFLOW"]

\* stack_err_e_strings: the slots with an initializer; every other slot of
\* the array is NULL.
stack_err_e_strings ==
    [e \in 0 .. (STACK_NUM_ERR - 1) |->
        CASE e = STACK_E_OK           -> "OK"
          [] e = STACK_E_FULL         -> "FULL"
          [] e = STACK_E_INVALID      -> "INVALID"
          [] e = STACK_E_NOMEM        -> "NOMEM"
          [] e = STACK_E_EMPTY        -> "EMPTY"
          [] e = STACK_E_INTERNAL     -> "INTERNAL"
          [] e = STACK_E_BUF_OVERFLOW -> "BUFOVERFLOW"
          [] e = STACK_E_MAX_REFCOUNT -> "MAXREFCOUNT"]

stack_err_e_to_string(err) ==
    IF ~ stack_err_e_is_valid(err) THEN STACK_ERR_UNKNOWN_STR
    ELSE IF err \notin DOMAIN stack_err_e_strings THEN STACK_ERR_UNKNOWN_STR
    ELSE stack_err_e_strings[err]

\* Values passed as a stack_err_e: the defined codes and ErrSpan values on
\* each side of them.
ErrSpan  == 50
ErrCodes == (0 - ErrSpan) .. (STACK_NUM_ERR - 1 + ErrSpan)

STACK_MAX_REFCOUNT == 2 ^ RefBits - 1
RefMod == 2 ^ RefBits

(***************************************************************************)
(* Addresses.  StackAddr is the block returned by malloc in                *)
(* stack_alloc_custom; ForeignAddr is a block of caller memory that holds  *)
(* no initialized stack (its self field does not point to itself).         *)
(***************************************************************************)
NULL        == 0
StackAddr   == 1
ForeignAddr == 2
Addr        == {StackAddr, ForeignAddr}
Handles     == {NULL} \cup Addr

(***************************************************************************)
(* Bytes.  Callers' entries are made of DataBytes; GarbageBytes are the    *)
(* possible fills of memory that malloc returns; PoisonByte fills the      *)
(* caller's output buffer before a peek or pop.                            *)
(***************************************************************************)
DataBytes    == {17, 34}
GarbageBytes == {204}
PoisonByte   == 170

BufIdx == 0 .. (BufSize - 1)

VARIABLES
    heap,       \* heap[a]: the struct stack_ stored at address a
    allocd,     \* addresses whose storage is currently allocated
    last,       \* the last API call: its arguments and everything it returned
    shadow,     \* history: entries pushed OK and not yet popped OK, top first
    netEntries, \* history: (stack_push OK) - (stack_pop OK) on the stack
    netRefs,    \* history: 1 + (incr_refcount OK) - (stack_free calls) on the stack
    ub,         \* "none", or the outcome of undefined behaviour
    srcmem      \* the bytes now in the caller's object that stack_push copies from

vars == <<heap, allocd, last, shadow, netEntries, netRefs, ub, srcmem>>

(***************************************************************************)
(* size_t stored in / loaded from the buffer at a byte offset.             *)
(***************************************************************************)
SizeByte(n, i) == (n \div (256 ^ i)) % 256

StoreSize(buf, off, n) ==
    [j \in BufIdx |->
        IF j >= off /\ j < off + SizeW THEN SizeByte(n, j - off) ELSE buf[j]]

RECURSIVE LoadSizeFrom(_, _, _)
LoadSizeFrom(buf, off, i) ==
    IF i >= SizeW THEN 0
    ELSE buf[off + i] * (256 ^ i) + LoadSizeFrom(buf, off, i + 1)

LoadSize(buf, off) == LoadSizeFrom(buf, off, 0)

(***************************************************************************)
(* memcpy between the buffer and a caller's byte sequence.                 *)
(***************************************************************************)
MemcpyIn(buf, off, src, n) ==
    [j \in BufIdx |-> IF j >= off /\ j < off + n THEN src[j - off + 1] ELSE buf[j]]

\* Variant: the bytes are taken from the caller's source object, as if the
\* stack had kept the caller's pointer instead of a copy of the entry.
MemcpyOut_alias(dst, buf, off, n) ==
    [j \in 1 .. Len(dst) |->
        IF j <= n THEN srcmem[((j - 1) % Len(srcmem)) + 1] ELSE dst[j]]

MemcpyOut(dst, buf, off, n) ==
    [j \in 1 .. Len(dst) |-> IF j <= n THEN buf[off + j - 1] ELSE dst[j]]

\* The object a handle points to (nothing for a NULL handle).
Deref(h) == IF h = NULL THEN << >> ELSE heap[h]

\* Variant: any object whose self pointer is set counts as a stack.
stack_is_valid_anyself(h) == (h # NULL) /\ (heap[h].self # NULL)

(***************************************************************************)
(* stack_is_valid                                                          *)
(***************************************************************************)
stack_is_valid(h) == (h # NULL) /\ (h = heap[h].self)

\* Special parameter values of stack_alloc_custom; the default entry size is
\* the size of a pointer, which is as wide as a size_t.
STACK_MAX_ENTRIES_NONE    == 0
STACK_MAX_ENTRY_SIZE_NONE == 0
STACK_MAX_SIZE_NONE       == 0
STACK_DEFAULT_ENTRY_SIZE  == SizeW

\* Variant: the reference count is left at 0.
stack_alloc_custom_norefs(addr, g, max_entries, max_entry_size, default_entry_size, max_size) ==
    [self          |-> addr,
     buf           |-> [j \in BufIdx |-> g],
     buf_free_size |-> BufSize,
     num_entries   |-> 0,
     refcount      |-> 0]

\* Variant: max_size, when given, limits the space handed out.
stack_alloc_custom_limited(addr, g, max_entries, max_entry_size, default_entry_size, max_size) ==
    [self          |-> addr,
     buf           |-> [j \in BufIdx |-> g],
     buf_free_size |-> IF max_size # STACK_MAX_SIZE_NONE /\ max_size < BufSize
                       THEN max_size ELSE BufSize,
     num_entries   |-> 0,
     refcount      |-> 1]

(***************************************************************************)
(* stack_alloc_custom: the object written into freshly malloc'ed memory    *)
(* whose buffer bytes are all g.  The four parameters are unused.          *)
(***************************************************************************)
stack_alloc_custom(addr, g, max_entries, max_entry_size, default_entry_size, max_size) ==
    [self          |-> addr,
     buf           |-> [j \in BufIdx |-> g],
     buf_free_size |-> BufSize,
     num_entries   |-> 0,
     refcount      |-> 1]

stack_alloc(addr, g) ==
    stack_alloc_custom(addr, g, STACK_MAX_ENTRIES_NONE, STACK_MAX_ENTRY_SIZE_NONE,
                       STACK_DEFAULT_ENTRY_SIZE, STACK_MAX_SIZE_NONE)

\* Parameter tuples <<max_entries, max_entry_size, default_entry_size,
\* max_size>> passed to stack_alloc_custom: the defaults, and limits of one
\* entry of one byte.
DefaultParams == <<STACK_MAX_ENTRIES_NONE, STACK_MAX_ENTRY_SIZE_NONE,
                   STACK_DEFAULT_ENTRY_SIZE, STACK_MAX_SIZE_NONE>>
TightParams   == <<1, 1, 1, SizeW + 1>>
AllocParams   == {DefaultParams, TightParams}

\* Variant: only a NULL handle is rejected.
stack_get_num_entries_nullonly(h) ==
    IF h = NULL THEN 0 ELSE heap[h].num_entries

stack_get_num_entries(h) ==
    IF ~ stack_is_valid(h) THEN 0 ELSE heap[h].num_entries

\* Variant: the comparison is off by one, no stack is ever empty.
stack_is_empty_impl_never(s) == s.num_entries < 0

stack_is_empty_impl(s) == s.num_entries < 1

\* Variant: the data pointer does not skip the 'size' field.
stack_get_top_entry_noskip(s) ==
    [size_p |-> s.buf_free_size,
     data_p |-> s.buf_free_size]

(***************************************************************************)
(* stack_get_top_entry: offsets of the 'size' and 'data' fields of the     *)
(* top entry.                                                              *)
(***************************************************************************)
stack_get_top_entry(s) ==
    [size_p |-> s.buf_free_size,
     data_p |-> s.buf_free_size + SizeW]

(***************************************************************************)
(* Callers' arguments.                                                     *)
(*   entry_p of stack_push: NullPtr, or a pointer to an object whose bytes *)
(*   repeat one of Patterns;                                               *)
(*   entry_p of stack_peek/stack_pop: NullPtr, or OutBuf, a buffer of      *)
(*   OutBufLen bytes;                                                      *)
(*   entry_size_p: NoSizePtr (a NULL pointer), or the value of the size_t  *)
(*   variable it points to.                                                *)
(***************************************************************************)
NullPtr   == << >>
Patterns  == {<<17>>, <<34, 17>>}
OutBufLen == BufSize
OutBuf    == [j \in 1 .. OutBufLen |-> PoisonByte]
NoSizePtr == -1
NoReturn  == -1     \* the call did not return (the process was killed)
NoCode    == -2     \* the function returns no stack_err_e

SrcBytes(entry_p, n) == [j \in 1 .. n |-> entry_p[((j - 1) % Len(entry_p)) + 1]]

\* Entry lengths of calls whose entry_p points to at least entry_size bytes.
PushLens == {0, 1, 2, BufSize - SizeW, BufSize + 1}
\* Entry lengths no object can have: SizeW + entry_size wraps around.
WrapLens == {SizeMod - SizeW, SizeMod - SizeW + 1, SIZE_MAX}
OutCaps  == {0, 1, OutBufLen}

\* Variant: the space check comes before the check of the data pointer.
stack_push_fullfirst(h, entry_p, entry_size) ==
    LET s              == heap[h]
        new_entry_size == (SizeW + entry_size) % SizeMod
        s1             == [s EXCEPT !.num_entries   = (@ + 1) % SizeMod,
                                    !.buf_free_size = @ - new_entry_size]
        top            == stack_get_top_entry(s1)
    IN  IF ~ stack_is_valid(h)
        THEN {[ret |-> STACK_E_INVALID, obj |-> Deref(h), ub |-> "none"]}
        ELSE IF new_entry_size > s.buf_free_size
        THEN {[ret |-> STACK_E_FULL, obj |-> s, ub |-> "none"]}
        ELSE IF (entry_p = NullPtr) /\ (entry_size > 0)
        THEN {[ret |-> STACK_E_INVALID, obj |-> s, ub |-> "none"]}
        ELSE {[ret |-> STACK_E_OK,
               obj |-> [s1 EXCEPT !.buf =
                          MemcpyIn(StoreSize(@, top.size_p, entry_size),
                                   top.data_p,
                                   SrcBytes(entry_p, entry_size),
                                   entry_size)],
               ub  |-> "none"]}

\* Variant: the space of the 'size' field is not reserved.
stack_push_nosizew(h, entry_p, entry_size) ==
    LET s              == heap[h]
        new_entry_size == (SizeW + entry_size) % SizeMod
        s1             == [s EXCEPT !.num_entries   = (@ + 1) % SizeMod,
                                    !.buf_free_size = @ - entry_size]
        top            == stack_get_top_entry(s1)
    IN  IF ~ stack_is_valid(h)
        THEN {[ret |-> STACK_E_INVALID, obj |-> Deref(h), ub |-> "none"]}
        ELSE IF (entry_p = NullPtr) /\ (entry_size > 0)
        THEN {[ret |-> STACK_E_INVALID, obj |-> s, ub |-> "none"]}
        ELSE IF new_entry_size > s.buf_free_size
        THEN {[ret |-> STACK_E_FULL, obj |-> s, ub |-> "none"]}
        ELSE {[ret |-> STACK_E_OK,
               obj |-> [s1 EXCEPT !.buf =
                          MemcpyIn(StoreSize(@, top.size_p, entry_size),
                                   top.data_p,
                                   SrcBytes(entry_p, entry_size),
                                   entry_size)],
               ub  |-> "none"]}

\* Variant: the space check rejects an entry that fits exactly.
stack_push_ge(h, entry_p, entry_size) ==
    LET s              == heap[h]
        new_entry_size == (SizeW + entry_size) % SizeMod
        s1             == [s EXCEPT !.num_entries   = (@ + 1) % SizeMod,
                                    !.buf_free_size = @ - new_entry_size]
        top            == stack_get_top_entry(s1)
    IN  IF ~ stack_is_valid(h)
        THEN {[ret |-> STACK_E_INVALID, obj |-> Deref(h), ub |-> "none"]}
        ELSE IF (entry_p = NullPtr) /\ (entry_size > 0)
        THEN {[ret |-> STACK_E_INVALID, obj |-> s, ub |-> "none"]}
        ELSE IF new_entry_size >= s.buf_free_size
        THEN {[ret |-> STACK_E_FULL, obj |-> s, ub |-> "none"]}
        ELSE {[ret |-> STACK_E_OK,
               obj |-> [s1 EXCEPT !.buf =
                          MemcpyIn(StoreSize(@, top.size_p, entry_size),
                                   top.data_p,
                                   SrcBytes(entry_p, entry_size),
                                   entry_size)],
               ub  |-> "none"]}

(***************************************************************************)
(* stack_push.  The set of possible outcomes [ret, obj, ub] of a call on   *)
(* the object s stored at h; obj is the object after the call.             *)
(***************************************************************************)
stack_push(h, entry_p, entry_size) ==
    LET s              == heap[h]
        new_entry_size == (SizeW + entry_size) % SizeMod
        s1             == [s EXCEPT !.num_entries   = (@ + 1) % SizeMod,
                                    !.buf_free_size = @ - new_entry_size]
        top            == stack_get_top_entry(s1)
    IN  IF ~ stack_is_valid(h)
        THEN {[ret |-> STACK_E_INVALID, obj |-> Deref(h), ub |-> "none"]}
        ELSE IF (entry_p = NullPtr) /\ (entry_size > 0)
        THEN {[ret |-> STACK_E_INVALID, obj |-> s, ub |-> "none"]}
        ELSE IF new_entry_size > s.buf_free_size
        THEN {[ret |-> STACK_E_FULL, obj |-> s, ub |-> "none"]}
        ELSE IF top.data_p + entry_size <= BufSize
        THEN {[ret |-> STACK_E_OK,
               obj |-> [s1 EXCEPT !.buf =
                          IF entry_size > 0
                          THEN MemcpyIn(StoreSize(@, top.size_p, entry_size),
                                        top.data_p,
                                        SrcBytes(entry_p, entry_size),
                                        entry_size)
                          ELSE StoreSize(@, top.size_p, entry_size)],
               ub  |-> "none"]}
        ELSE \* the size write and the memcpy run past the end of buf
             {[ret |-> NoReturn,   obj |-> s1, ub |-> "crash"],
              [ret |-> STACK_E_OK, obj |-> s1, ub |-> "corrupt"]}

\* Variant: the declared capacity is checked although entry_p is NULL.
stack_peek_capcheck(h, entry_p, entry_size_p) ==
    LET s              == heap[h]
        in_entry_size  == entry_size_p
        top            == stack_get_top_entry(s)
        out_entry_size == LoadSize(s.buf, top.size_p)
        untouched(e)   == {[ret |-> e, out_size |-> entry_size_p,
                            out_buf |-> entry_p, obj |-> Deref(h), ub |-> "none"]}
    IN  IF ~ stack_is_valid(h) THEN untouched(STACK_E_INVALID)
        ELSE IF entry_size_p = NoSizePtr THEN untouched(STACK_E_INVALID)
        ELSE IF in_entry_size < 1 THEN untouched(STACK_E_INVALID)
        ELSE IF stack_is_empty_impl(s) THEN untouched(STACK_E_EMPTY)
        ELSE IF (out_entry_size > 0) /\ (entry_p # NullPtr)
        THEN IF out_entry_size > in_entry_size
             THEN untouched(STACK_E_BUF_OVERFLOW)
             ELSE {[ret      |-> STACK_E_OK,
                    out_size |-> out_entry_size,
                    out_buf  |-> MemcpyOut(entry_p, s.buf, top.data_p, out_entry_size),
                    obj      |-> s,
                    ub       |-> "none"]}
        ELSE {[ret |-> STACK_E_OK, out_size |-> out_entry_size,
               out_buf |-> entry_p, obj |-> s, ub |-> "none"]}

\* Variant: the empty-stack test comes before the check of the capacity.
stack_peek_emptyfirst(h, entry_p, entry_size_p) ==
    LET s              == heap[h]
        in_entry_size  == IF entry_p # NullPtr THEN entry_size_p ELSE 0
        top            == stack_get_top_entry(s)
        out_entry_size == LoadSize(s.buf, top.size_p)
        untouched(e)   == {[ret |-> e, out_size |-> entry_size_p,
                            out_buf |-> entry_p, obj |-> Deref(h), ub |-> "none"]}
    IN  IF ~ stack_is_valid(h) THEN untouched(STACK_E_INVALID)
        ELSE IF entry_size_p = NoSizePtr THEN untouched(STACK_E_INVALID)
        ELSE IF stack_is_empty_impl(s) THEN untouched(STACK_E_EMPTY)
        ELSE IF (entry_p # NullPtr) /\ (in_entry_size < 1)
        THEN untouched(STACK_E_INVALID)
        ELSE IF (out_entry_size > 0) /\ (entry_p # NullPtr)
        THEN IF out_entry_size > in_entry_size
             THEN untouched(STACK_E_BUF_OVERFLOW)
             ELSE {[ret      |-> STACK_E_OK,
                    out_size |-> out_entry_size,
                    out_buf  |-> MemcpyOut(entry_p, s.buf, top.data_p, out_entry_size),
                    obj      |-> s,
                    ub       |-> "none"]}
        ELSE {[ret |-> STACK_E_OK, out_size |-> out_entry_size,
               out_buf |-> entry_p, obj |-> s, ub |-> "none"]}

\* Variant: a top entry without data is taken for no entry.
stack_peek_zeroempty(h, entry_p, entry_size_p) ==
    LET s              == heap[h]
        in_entry_size  == IF entry_p # NullPtr THEN entry_size_p ELSE 0
        top            == stack_get_top_entry(s)
        out_entry_size == LoadSize(s.buf, top.size_p)
        untouched(e)   == {[ret |-> e, out_size |-> entry_size_p,
                            out_buf |-> entry_p, obj |-> Deref(h), ub |-> "none"]}
    IN  IF ~ stack_is_valid(h) THEN untouched(STACK_E_INVALID)
        ELSE IF entry_size_p = NoSizePtr THEN untouched(STACK_E_INVALID)
        ELSE IF (entry_p # NullPtr) /\ (in_entry_size < 1)
        THEN untouched(STACK_E_INVALID)
        ELSE IF stack_is_empty_impl(s) THEN untouched(STACK_E_EMPTY)
        ELSE IF out_entry_size = 0 THEN untouched(STACK_E_EMPTY)
        ELSE IF entry_p # NullPtr
        THEN IF out_entry_size > in_entry_size
             THEN untouched(STACK_E_BUF_OVERFLOW)
             ELSE {[ret      |-> STACK_E_OK,
                    out_size |-> out_entry_size,
                    out_buf  |-> MemcpyOut(entry_p, s.buf, top.data_p, out_entry_size),
                    obj      |-> s,
                    ub       |-> "none"]}
        ELSE {[ret |-> STACK_E_OK, out_size |-> out_entry_size,
               out_buf |-> entry_p, obj |-> s, ub |-> "none"]}

\* Variant: peek consumes the entry count like pop.
stack_peek_consuming(h, entry_p, entry_size_p) ==
    LET s              == heap[h]
        in_entry_size  == IF entry_p # NullPtr THEN entry_size_p ELSE 0
        top            == stack_get_top_entry(s)
        out_entry_size == LoadSize(s.buf, top.size_p)
        untouched(e)   == {[ret |-> e, out_size |-> entry_size_p,
                            out_buf |-> entry_p, obj |-> Deref(h), ub |-> "none"]}
        s1             == [s EXCEPT !.num_entries = (@ - 1) % SizeMod]
    IN  IF ~ stack_is_valid(h) THEN untouched(STACK_E_INVALID)
        ELSE IF entry_size_p = NoSizePtr THEN untouched(STACK_E_INVALID)
        ELSE IF (entry_p # NullPtr) /\ (in_entry_size < 1)
        THEN untouched(STACK_E_INVALID)
        ELSE IF stack_is_empty_impl(s) THEN untouched(STACK_E_EMPTY)
        ELSE IF (out_entry_size > 0) /\ (entry_p # NullPtr)
        THEN IF out_entry_size > in_entry_size
             THEN untouched(STACK_E_BUF_OVERFLOW)
             ELSE {[ret      |-> STACK_E_OK,
                    out_size |-> out_entry_size,
                    out_buf  |-> MemcpyOut(entry_p, s.buf, top.data_p, out_entry_size),
                    obj      |-> s1,
                    ub       |-> "none"]}
        ELSE {[ret |-> STACK_E_OK, out_size |-> out_entry_size,
               out_buf |-> entry_p, obj |-> s1, ub |-> "none"]}

(***************************************************************************)
(* stack_peek.  The set of possible outcomes [ret, out_size, out_buf, obj, *)
(* ub]: the return code, the value of *entry_size_p and the content of     *)
(* *entry_p after the call, and the object after the call.                 *)
(***************************************************************************)
stack_peek(h, entry_p, entry_size_p) ==
    LET s              == heap[h]
        in_entry_size  == IF entry_p # NullPtr THEN entry_size_p ELSE 0
        top            == stack_get_top_entry(s)
        out_entry_size == LoadSize(s.buf, top.size_p)
        untouched(e)   == {[ret |-> e, out_size |-> entry_size_p,
                            out_buf |-> entry_p, obj |-> Deref(h), ub |-> "none"]}
        \* a read past the end of buf
        wild           == {[ret |-> c[1], out_size |-> entry_size_p,
                            out_buf |-> entry_p, obj |-> s, ub |-> c[2]] :
                              c \in {<<NoReturn, "crash">>, <<STACK_E_OK, "corrupt">>}}
    IN  IF ~ stack_is_valid(h) THEN untouched(STACK_E_INVALID)
        ELSE IF entry_size_p = NoSizePtr THEN untouched(STACK_E_INVALID)
        ELSE IF (entry_p # NullPtr) /\ (in_entry_size < 1)
        THEN untouched(STACK_E_INVALID)
        ELSE IF stack_is_empty_impl(s) THEN untouched(STACK_E_EMPTY)
        ELSE IF top.data_p > BufSize THEN wild
        ELSE IF (out_entry_size > 0) /\ (entry_p # NullPtr)
        THEN IF out_entry_size > in_entry_size
             THEN untouched(STACK_E_BUF_OVERFLOW)
             ELSE IF top.data_p + out_entry_size > BufSize THEN wild
             ELSE {[ret      |-> STACK_E_OK,
                    out_size |-> out_entry_size,
                    out_buf  |-> MemcpyOut(entry_p, s.buf, top.data_p, out_entry_size),
                    obj      |-> s,
                    ub       |-> "none"]}
        ELSE {[ret |-> STACK_E_OK, out_size |-> out_entry_size,
               out_buf |-> entry_p, obj |-> s, ub |-> "none"]}

\* Variant: the entry is removed although stack_peek reported that the
\* output buffer is too small.
stack_pop_nocheck(h, entry_p, entry_size_p) ==
    {IF r.ret \notin {STACK_E_OK, STACK_E_BUF_OVERFLOW} \/ r.ub # "none"
     THEN r
     ELSE [r EXCEPT !.obj = [@ EXCEPT
                               !.buf_free_size = (@ + SizeW + r.out_size) % SizeMod,
                               !.num_entries   = (@ - 1) % SizeMod]] :
        r \in stack_peek(h, entry_p, entry_size_p)}

\* Variant: the space of the 'size' field is not given back.
stack_pop_nosize(h, entry_p, entry_size_p) ==
    {IF stack_err_e_is_error(r.ret) \/ r.ub # "none"
     THEN r
     ELSE [r EXCEPT !.obj = [@ EXCEPT
                               !.buf_free_size = (@ + r.out_size) % SizeMod,
                               !.num_entries   = (@ - 1) % SizeMod]] :
        r \in stack_peek(h, entry_p, entry_size_p)}

\* Variant: the entry count is not decremented.
stack_pop_nodecr(h, entry_p, entry_size_p) ==
    {IF stack_err_e_is_error(r.ret) \/ r.ub # "none"
     THEN r
     ELSE [r EXCEPT !.obj = [@ EXCEPT
                               !.buf_free_size = (@ + SizeW + r.out_size) % SizeMod]] :
        r \in stack_peek(h, entry_p, entry_size_p)}

(***************************************************************************)
(* stack_pop.  The set of possible outcomes, as for stack_peek.            *)
(***************************************************************************)
stack_pop(h, entry_p, entry_size_p) ==
    {IF stack_err_e_is_error(r.ret) \/ r.ub # "none"
     THEN r
     ELSE [r EXCEPT !.obj = [@ EXCEPT
                               !.buf_free_size = (@ + SizeW + r.out_size) % SizeMod,
                               !.num_entries   = (@ - 1) % SizeMod]] :
        r \in stack_peek(h, entry_p, entry_size_p)}

\* Variant: no check against STACK_MAX_REFCOUNT, the count wraps around.
stack_incr_refcount_wrap(h) ==
    IF ~ stack_is_valid(h)
    THEN [ret |-> STACK_E_INVALID, obj |-> Deref(h)]
    ELSE [ret |-> STACK_E_OK, obj |-> [heap[h] EXCEPT !.refcount = (@ + 1) % RefMod]]

(***************************************************************************)
(* stack_incr_refcount.  Result [ret, obj].                                *)
(***************************************************************************)
stack_incr_refcount(h) ==
    IF ~ stack_is_valid(h)
    THEN [ret |-> STACK_E_INVALID, obj |-> Deref(h)]
    ELSE IF heap[h].refcount >= STACK_MAX_REFCOUNT
    THEN [ret |-> STACK_E_MAX_REFCOUNT, obj |-> heap[h]]
    ELSE [ret |-> STACK_E_OK, obj |-> [heap[h] EXCEPT !.refcount = @ + 1]]

stack_get_refcount(h) ==
    IF ~ stack_is_valid(h) THEN 0 ELSE heap[h].refcount

\* Variant: dropping a reference also empties the stack.
stack_free_reset(h) ==
    IF h = NULL
    THEN [obj |-> << >>, released |-> FALSE]
    ELSE LET s1 == [heap[h] EXCEPT !.refcount      = (@ - 1) % RefMod,
                                   !.num_entries   = 0,
                                   !.buf_free_size = BufSize]
         IN  [obj |-> s1, released |-> (0 = s1.refcount)]

\* Variant: the storage is released whatever the count is.
stack_free_always(h) ==
    IF h = NULL
    THEN [obj |-> << >>, released |-> FALSE]
    ELSE [obj |-> [heap[h] EXCEPT !.refcount = (@ - 1) % RefMod], released |-> TRUE]

(***************************************************************************)
(* stack_free.  Result [obj, released]: the object after the decrement and *)
(* whether free() was called on its storage.                               *)
(***************************************************************************)
stack_free(h) ==
    IF h = NULL
    THEN [obj |-> << >>, released |-> FALSE]
    ELSE LET s1 == [heap[h] EXCEPT !.refcount = (@ - 1) % RefMod]
         IN  [obj |-> s1, released |-> (0 = s1.refcount)]

(***************************************************************************)
(* stack_free_and_clear.  stack_pp is NULL or VarAddr, the address of the  *)
(* caller's handle variable, whose value is var.  Result [obj, released,   *)
(* var]: as for stack_free on var, and the variable after the call.        *)
(***************************************************************************)
VarAddr == 3

\* Variant: the caller's variable is cleared only when the storage was released.
stack_free_and_clear_ifreleased(stack_pp, var) ==
    IF stack_pp # NULL
    THEN LET r == stack_free(var)
         IN  [obj |-> r.obj, released |-> r.released,
              var |-> IF r.released THEN NULL ELSE var]
    ELSE [obj |-> Deref(var), released |-> FALSE, var |-> var]

stack_free_and_clear(stack_pp, var) ==
    IF stack_pp # NULL
    THEN LET r == stack_free(var)
         IN  [obj |-> r.obj, released |-> r.released, var |-> NULL]
    ELSE [obj |-> Deref(var), released |-> FALSE, var |-> var]

(***************************************************************************)
(* The fields of the object at h that a call reads or writes, along the    *)
(* path the call takes.                                                    *)
(***************************************************************************)
stack_is_valid_fields(h) == IF h = NULL THEN {} ELSE {"self"}

stack_push_fields(h, entry_p, entry_size) ==
    IF ~ stack_is_valid(h) THEN stack_is_valid_fields(h)
    ELSE IF (entry_p = NullPtr) /\ (entry_size > 0) THEN {"self"}
    ELSE IF (SizeW + entry_size) % SizeMod > heap[h].buf_free_size
    THEN {"self", "buf_free_size"}
    ELSE {"self", "buf_free_size", "num_entries", "buf"}

stack_peek_fields(h, entry_p, entry_size_p) ==
    IF ~ stack_is_valid(h) THEN stack_is_valid_fields(h)
    ELSE IF entry_size_p = NoSizePtr THEN {"self"}
    ELSE IF (entry_p # NullPtr) /\ (entry_size_p < 1) THEN {"self"}
    ELSE IF stack_is_empty_impl(heap[h]) THEN {"self", "num_entries"}
    ELSE {"self", "num_entries", "buf_free_size", "buf"}

stack_pop_fields(h, entry_p, entry_size_p) ==
    stack_peek_fields(h, entry_p, entry_size_p)

stack_incr_refcount_fields(h) ==
    IF ~ stack_is_valid(h) THEN stack_is_valid_fields(h)
    ELSE {"self", "refcount"}

(***************************************************************************)
(* stack_get_next_entry.  size_p and data_p are the offsets of the current *)
(* entry's fields, NullOff for a NULL pointer.  Result [ret, size_p,       *)
(* data_p]: the return value and the two pointers after the call.          *)
(***************************************************************************)
NullOff == -1

\* Variant: the next entry is sought 'size' bytes after the 'size' field
\* instead of after the data pointer.
stack_get_next_entry_nodata(s, size_p, data_p) ==
    IF size_p = NullOff
    THEN [ret |-> FALSE, size_p |-> size_p, data_p |-> NullOff]
    ELSE IF data_p = NullOff
    THEN [ret |-> FALSE, size_p |-> NullOff, data_p |-> data_p]
    ELSE LET entry_size_p == size_p + LoadSize(s.buf, size_p)
         IN  IF entry_size_p > BufSize
             THEN [ret |-> FALSE, size_p |-> NullOff, data_p |-> NullOff]
             ELSE [ret |-> TRUE, size_p |-> entry_size_p,
                   data_p |-> entry_size_p + SizeW]

stack_get_next_entry(s, size_p, data_p) ==
    IF size_p = NullOff
    THEN [ret |-> FALSE, size_p |-> size_p, data_p |-> NullOff]
    ELSE IF data_p = NullOff
    THEN [ret |-> FALSE, size_p |-> NullOff, data_p |-> data_p]
    ELSE LET entry_size_p == data_p + LoadSize(s.buf, size_p)
         IN  IF entry_size_p > BufSize
             THEN [ret |-> FALSE, size_p |-> NullOff, data_p |-> NullOff]
             ELSE [ret |-> TRUE, size_p |-> entry_size_p,
                   data_p |-> entry_size_p + SizeW]

(***************************************************************************)
(* stack_print.  The text written to STDOUT is a sequence of lines:        *)
(*   <<"invalid", ptr>>, <<"header", ptr, refs, entries, used, avail>>,    *)
(*   <<"entry", ptr, size, data>>, <<"entry_null">>, <<"footer">>;         *)
(* <<"wild">> stands for whatever a read outside the object produces.      *)
(***************************************************************************)
\* The lines of the loop over the entries, from the i-th iteration on.
RECURSIVE stack_print_entries(_, _, _, _)
stack_print_entries(s, i, entry_size_p, entry_data_p) ==
    IF i >= s.num_entries THEN << >>
    ELSE IF entry_size_p = NullOff THEN << <<"entry_null">> >>
    ELSE IF entry_size_p + SizeW > BufSize THEN << <<"wild">> >>
    ELSE LET entry_size == LoadSize(s.buf, entry_size_p)
             nxt        == stack_get_next_entry(s, entry_size_p, entry_data_p)
         IN  IF entry_data_p + entry_size > BufSize THEN << <<"wild">> >>
             ELSE << <<"entry", entry_size_p, entry_size,
                       [j \in 1 .. entry_size |-> s.buf[entry_data_p + j - 1]]>> >>
                  \o stack_print_entries(s, i + 1, nxt.size_p, nxt.data_p)

\* The results of the calls of stack_get_next_entry that the loop over the
\* entries makes, from the i-th iteration on.
RECURSIVE stack_print_walk(_, _, _, _)
stack_print_walk(s, i, entry_size_p, entry_data_p) ==
    IF i >= s.num_entries THEN << >>
    ELSE IF entry_size_p = NullOff THEN << >>
    ELSE IF entry_size_p + SizeW > BufSize THEN << >>
    ELSE LET nxt == stack_get_next_entry(s, entry_size_p, entry_data_p)
         IN  <<nxt>> \o stack_print_walk(s, i + 1, nxt.size_p, nxt.data_p)

\* The set of possible outcomes [out, ub]: the lines printed and the
\* undefined behaviour met.
stack_print(h) ==
    LET msg == IF ~ stack_is_valid(h) THEN << <<"invalid", h>> >> ELSE << >>
    IN  IF h = NULL
        THEN \* stack_p->refcount dereferences the NULL pointer
             {[out |-> msg, ub |-> "crash"],
              [out |-> msg \o << <<"wild">> >>, ub |-> "corrupt"]}
        ELSE LET s       == heap[h]
                 top     == stack_get_top_entry(s)
                 entries == IF ~ stack_is_empty_impl(s)
                            THEN stack_print_entries(s, 0, top.size_p, top.data_p)
                            ELSE << >>
                 lines   == msg
                            \o << <<"header", h, s.refcount, s.num_entries,
                                    (BufSize - s.buf_free_size) % SizeMod,
                                    s.buf_free_size>> >>
                            \o entries
             IN  IF \E k \in 1 .. Len(entries) : entries[k] = <<"wild">>
                 THEN {[out |-> lines, ub |-> "crash"],
                       [out |-> lines \o << <<"footer">> >>, ub |-> "corrupt"]}
                 ELSE {[out |-> lines \o << <<"footer">> >>, ub |-> "none"]}

stack_print_fields(h) ==
    IF h = NULL THEN {"refcount"}
    ELSE {"self", "refcount", "num_entries", "buf_free_size"}
         \cup (IF ~ stack_is_empty_impl(heap[h]) THEN {"buf"} ELSE {})

(***************************************************************************)
(* The state machine.                                                      *)
(***************************************************************************)
\* Memory at ForeignAddr: zero-like or a byte copy of a stack made elsewhere;
\* in both cases self # ForeignAddr.
ForeignObjs ==
    {[self |-> f[1], buf |-> [j \in BufIdx |-> 0], buf_free_size |-> BufSize - SizeW - 1,
      num_entries |-> 1, refcount |-> f[2]] : f \in {<<StackAddr, 1>>}}

Call(op, h, entry_p, size_in, ret, out_size, out_buf) ==
    [op |-> op, h |-> h, entry_p |-> entry_p, size_in |-> size_in,
     ret |-> ret, out_size |-> out_size, out_buf |-> out_buf]

Store(h, obj) == IF h = NULL THEN heap ELSE [heap EXCEPT ![h] = obj]

\* Callers pass NULL or a pointer to storage that has not been released.
Usable(h) == (ub = "none") /\ (h = NULL \/ h \in allocd)

Init ==
    /\ \E g \in GarbageBytes, f \in ForeignObjs :
          heap = [a \in Addr |-> IF a = StackAddr
                                 THEN stack_alloc(StackAddr, g) ELSE f]
    /\ allocd  = Addr
    /\ last    = Call("alloc", StackAddr, DefaultParams, 0, NoCode, 0, NullPtr)
    /\ shadow  = << >>
    /\ netEntries = 0
    /\ netRefs = 1
    /\ ub      = "none"
    /\ srcmem  = <<17>>

\* stack_alloc / stack_alloc_custom after the previous stack was released;
\* entry_p of the call record holds the four parameters.
AllocOk ==
    /\ ub = "none" /\ StackAddr \notin allocd
    /\ \E g \in GarbageBytes, p \in AllocParams :
          /\ heap' = [heap EXCEPT ![StackAddr] =
                         stack_alloc_custom(StackAddr, g, p[1], p[2], p[3], p[4])]
          /\ last' = Call("alloc", StackAddr, p, 0, NoCode, 0, NullPtr)
    /\ allocd'  = allocd \cup {StackAddr}
    /\ shadow'  = << >>
    /\ netEntries' = 0
    /\ netRefs' = 1
    /\ UNCHANGED <<ub, srcmem>>

\* malloc fails: stack_alloc_custom returns NULL.
AllocFail ==
    /\ ub = "none" /\ StackAddr \notin allocd
    /\ \E p \in AllocParams : last' = Call("alloc", NULL, p, 0, NoCode, 0, NullPtr)
    /\ UNCHANGED <<heap, allocd, shadow, netEntries, netRefs, ub, srcmem>>

\* The calls explored: every argument combination on the stack, and for a
\* NULL or foreign handle one combination per kind of argument.  The caller
\* pushes from one object, which it fills with a pattern before the call:
\* srcmem is what that object holds now.
PushCalls(lens) ==
    ({StackAddr} \X ({NullPtr} \cup Patterns) \X lens)
    \cup ((Handles \ {StackAddr}) \X {NullPtr, <<17>>} \X {1})

PeekCalls ==
    ({StackAddr} \X {NullPtr, OutBuf} \X ({NoSizePtr} \cup OutCaps))
    \cup ((Handles \ {StackAddr}) \X {NullPtr, OutBuf} \X {OutBufLen})

PushWith(lens) ==
    \E c \in PushCalls(lens) :
      LET h == c[1]  entry_p == c[2]  entry_size == c[3] IN
        /\ Usable(h)
        /\ \E r \in stack_push(h, entry_p, entry_size) :
              LET ok == (h = StackAddr) /\ (r.ret = STACK_E_OK) /\ (r.ub = "none") IN
              /\ heap'       = Store(h, r.obj)
              /\ ub'         = r.ub
              /\ last'       = Call("push", h, entry_p, entry_size, r.ret, 0, NullPtr)
              /\ shadow'     = IF ok THEN <<SrcBytes(entry_p, entry_size)>> \o shadow
                               ELSE shadow
              /\ netEntries' = IF ok THEN netEntries + 1 ELSE netEntries
        /\ srcmem' = IF entry_p = NullPtr THEN srcmem ELSE entry_p
        /\ UNCHANGED <<allocd, netRefs>>

Push == PushWith(PushLens)

Peek ==
    \E c \in PeekCalls :
      LET h == c[1]  entry_p == c[2]  entry_size_p == c[3] IN
        /\ Usable(h)
        /\ \E r \in stack_peek(h, entry_p, entry_size_p) :
              /\ heap' = Store(h, r.obj)
              /\ ub'   = r.ub
              /\ last' = Call("peek", h, entry_p, entry_size_p,
                              r.ret, r.out_size, r.out_buf)
        /\ UNCHANGED <<allocd, shadow, netEntries, netRefs, srcmem>>

Pop ==
    \E c \in PeekCalls :
      LET h == c[1]  entry_p == c[2]  entry_size_p == c[3] IN
        /\ Usable(h)
        /\ \E r \in stack_pop(h, entry_p, entry_size_p) :
              LET ok == (h = StackAddr) /\ (r.ret = STACK_E_OK) /\ (r.ub = "none") IN
              /\ heap'       = Store(h, r.obj)
              /\ ub'         = r.ub
              /\ last'       = Call("pop", h, entry_p, entry_size_p,
                                    r.ret, r.out_size, r.out_buf)
              /\ shadow'     = IF ok /\ shadow # << >> THEN Tail(shadow) ELSE shadow
              /\ netEntries' = IF ok THEN netEntries - 1 ELSE netEntries
        /\ UNCHANGED <<allocd, netRefs, srcmem>>

IncrRefcount ==
    \E h \in Handles :
        /\ Usable(h)
        /\ LET r == stack_incr_refcount(h)
           IN  /\ heap'    = Store(h, r.obj)
               /\ last'    = Call("incr_refcount", h, NullPtr, 0, r.ret, 0, NullPtr)
               /\ netRefs' = IF h = StackAddr /\ r.ret = STACK_E_OK
                             THEN netRefs + 1 ELSE netRefs
        /\ UNCHANGED <<allocd, shadow, netEntries, ub, srcmem>>

Free ==
    \E h \in Handles :
        /\ Usable(h)
        /\ LET r == stack_free(h)
           IN  /\ heap'   = Store(h, r.obj)
               /\ allocd' = IF r.released THEN allocd \ {h} ELSE allocd
               /\ last'   = Call("free", h, NullPtr, 0, NoCode, 0, NullPtr)
        /\ netRefs' = IF h = StackAddr THEN netRefs - 1 ELSE netRefs
        /\ UNCHANGED <<shadow, netEntries, ub, srcmem>>

\* stack_get_num_entries and stack_get_refcount: out_size is the count returned.
GetNumEntries ==
    \E h \in Handles :
        /\ Usable(h)
        /\ last' = Call("get_num_entries", h, NullPtr, 0, NoCode,
                        stack_get_num_entries(h), NullPtr)
        /\ UNCHANGED <<heap, allocd, shadow, netEntries, netRefs, ub, srcmem>>

GetRefcount ==
    \E h \in Handles :
        /\ Usable(h)
        /\ last' = Call("get_refcount", h, NullPtr, 0, NoCode,
                        stack_get_refcount(h), NullPtr)
        /\ UNCHANGED <<heap, allocd, shadow, netEntries, netRefs, ub, srcmem>>

\* stack_free_and_clear: size_in is stack_pp, h the handle variable before the
\* call and out_size the handle variable after it.
FreeAndClear ==
    \E c \in ({VarAddr} \X Handles) \cup {<<NULL, NULL>>} :
      LET stack_pp == c[1]  h == c[2] IN
        /\ Usable(h)
        /\ LET r == stack_free_and_clear(stack_pp, h)
           IN  /\ heap'   = Store(h, r.obj)
               /\ allocd' = IF r.released THEN allocd \ {h} ELSE allocd
               /\ last'   = Call("free_and_clear", h, NullPtr, stack_pp, NoCode,
                                 r.var, NullPtr)
        /\ netRefs' = IF h = StackAddr /\ stack_pp # NULL THEN netRefs - 1 ELSE netRefs
        /\ UNCHANGED <<shadow, netEntries, ub, srcmem>>

\* stack_print: out_buf is the text printed.
Display ==
    \E h \in Handles :
        /\ Usable(h)
        /\ \E r \in stack_print(h) :
              /\ last' = Call("print", h, NullPtr, 0,
                              IF r.ub = "crash" THEN NoReturn ELSE NoCode, 0, r.out)
              /\ ub'   = r.ub
        /\ UNCHANGED <<heap, allocd, shadow, netEntries, netRefs, srcmem>>

Next ==
    \/ AllocOk \/ AllocFail \/ Push \/ Peek \/ Pop \/ IncrRefcount \/ Free
    \/ GetNumEntries \/ GetRefcount \/ FreeAndClear \/ Display

Spec == Init /\ [][Next]_vars

\* Pushes whose entry_size is so large that SizeW + entry_size wraps around.
PushWrap == PushWith(WrapLens)

NextWide == Next \/ PushWrap

SpecWide == Init /\ [][NextWide]_vars

(***************************************************************************)
(* stack_err_e_to_string applied to a value chosen by the caller: size_in  *)
(* is the value passed and out_buf holds the string returned.              *)
(***************************************************************************)
InitErr ==
    /\ \E f \in ForeignObjs : heap = [a \in Addr |-> f]
    /\ allocd  = {}
    /\ \E err \in ErrCodes :
          last = Call("caller", NULL, NullPtr, err, NoCode, 0, NullPtr)
    /\ shadow  = << >>
    /\ netEntries = 0
    /\ netRefs = 0
    /\ ub      = "none"
    /\ srcmem  = <<17>>

ErrToString ==
    /\ last.op = "caller"
    /\ last' = Call("err_to_string", NULL, NullPtr, last.size_in, NoCode, 0,
                    <<stack_err_e_to_string(last.size_in)>>)
    /\ UNCHANGED <<heap, allocd, shadow, netEntries, netRefs, ub, srcmem>>

NextErr == ErrToString

SpecErr == InitErr /\ [][NextErr]_vars

(***************************************************************************)
(* The command shell (src/src/stack_cmd.c).  Characters are their codes;   *)
(* g_stack_p is StackAddr.  The sizes of the shell's character arrays are  *)
(* scaled down from 128.                                                   *)
(***************************************************************************)
CmdSize     == 6      \* sizeof(cmd)
ArgsSize    == 3      \* sizeof(args)
OutArgsSize == 3      \* sizeof(out_args)

toupper(c) == IF c \in 97 .. 122 THEN c - 32 ELSE c

\* The 'name' fields of g_stack_cmd_commands: help, peek, pop, push, quit,
\* show, size.
g_stack_cmd_commands ==
    << <<104, 101, 108, 112>>, <<112, 101, 101, 107>>, <<112, 111, 112>>,
       <<112, 117, 115, 104>>, <<113, 117, 105, 116>>, <<115, 104, 111, 119>>,
       <<115, 105, 122, 101>> >>

STACK_CMD_NUM_COMMANDS == Len(g_stack_cmd_commands)

CmdIdx == 1 .. STACK_CMD_NUM_COMMANDS

\* Variant: the characters are compared as they are.
stack_cmd_match_char_exact(m, c, cmd_pos) ==
    LET drop(i) == /\ m.match[i]
                   /\ \/ cmd_pos >= Len(g_stack_cmd_commands[i])
                      \/ g_stack_cmd_commands[i][cmd_pos + 1] # c
    IN  IF m.num_matches > 0
        THEN [match       |-> [i \in CmdIdx |-> m.match[i] /\ ~ drop(i)],
              num_matches |-> m.num_matches - Cardinality({i \in CmdIdx : drop(i)})]
        ELSE m

\* The update of match[] and num_matches for the character c read at
\* position cmd_pos of the command word.
stack_cmd_match_char(m, c, cmd_pos) ==
    LET drop(i) == /\ m.match[i]
                   /\ \/ cmd_pos >= Len(g_stack_cmd_commands[i])
                      \/ toupper(g_stack_cmd_commands[i][cmd_pos + 1]) # toupper(c)
    IN  IF m.num_matches > 0
        THEN [match       |-> [i \in CmdIdx |-> m.match[i] /\ ~ drop(i)],
              num_matches |-> m.num_matches - Cardinality({i \in CmdIdx : drop(i)})]
        ELSE m

\* The loop over the characters of the command word, from cmd_pos on;
\* characters that do not fit into cmd are skipped.
RECURSIVE stack_cmd_match_word(_, _, _)
stack_cmd_match_word(m, word, cmd_pos) ==
    IF cmd_pos >= Len(word) THEN m
    ELSE stack_cmd_match_word(
             IF cmd_pos < CmdSize
             THEN stack_cmd_match_char(m, word[cmd_pos + 1], cmd_pos) ELSE m,
             word, cmd_pos + 1)

OutArgs == [j \in 1 .. OutArgsSize |-> 0]

\* The callback of command i run on args: the set of outcomes [obj, text,
\* cont, oob] with the stack after the call, what was printed, the
\* callback's return value and whether it wrote outside out_args.
stack_cmd_callback(i, args) ==
    LET same(text, cont) ==
            {[obj |-> heap[StackAddr], text |-> text, cont |-> cont, oob |-> FALSE]}
        taken(name, rs) ==
            {[obj  |-> r.obj,
              text |-> IF stack_err_e_is_error(r.ret)
                       THEN <<"error", name, r.ret, stack_err_e_to_string(r.ret)>>
                       ELSE <<name, SubSeq(r.out_buf, 1, r.out_size)>>,
              cont |-> TRUE,
              oob  |-> \/ r.ub # "none"
                       \/ (~ stack_err_e_is_error(r.ret)) /\ (r.out_size >= OutArgsSize)] :
                r \in rs}
    IN  CASE i = 1 -> same(<<"help">>, TRUE)
          [] i = 2 -> taken("peek", stack_peek(StackAddr, OutArgs, OutArgsSize))
          [] i = 3 -> taken("pop", stack_pop(StackAddr, OutArgs, OutArgsSize))
          [] i = 4 -> {[obj  |-> r.obj,
                        text |-> IF stack_err_e_is_error(r.ret)
                                 THEN <<"error", "push", r.ret,
                                        stack_err_e_to_string(r.ret)>>
                                 ELSE <<"push", args>>,
                        cont |-> TRUE,
                        oob  |-> r.ub # "none"] :
                          r \in stack_push(StackAddr, args, Len(args))}
          [] i = 5 -> same(<<"quit">>, FALSE)
          [] i = 6 -> {[obj |-> heap[StackAddr], text |-> <<"show", r.out>>, cont |-> TRUE,
                        oob |-> r.ub # "none"] : r \in stack_print(StackAddr)}
          [] i = 7 -> same(<<"size", stack_get_num_entries(StackAddr)>>, TRUE)

\* The indices of cmd that stack_cmd_parse_line writes for a command word:
\* the characters stored while cmd_pos < sizeof(cmd), and the terminator at
\* cmd_pos after the last character.
stack_cmd_cmd_writes(word) ==
    {k \in 0 .. (Len(word) - 1) : k < CmdSize} \cup {Len(word)}

\* The indices of args written for the rest of the line: the characters
\* stored while args_pos < sizeof(args), and the terminator at args_pos.
stack_cmd_args_writes(rest) ==
    {k \in 0 .. (Len(rest) - 1) : k < ArgsSize}
    \cup {IF Len(rest) < ArgsSize THEN Len(rest) ELSE ArgsSize}

\* stack_cmd_parse_line on a line [word, args, eof]: the command word, the
\* rest of the line after the white space, and whether the input ended
\* instead of the line.  The set of outcomes [kind, cb, text, ret, obj, ub]:
\* what the parser decided, the index of the callback run (0 for none), what
\* was printed, the return value, and the stack after the call.
stack_cmd_parse_line(line) ==
    LET m    == stack_cmd_match_word(
                    [match |-> [i \in CmdIdx |-> TRUE],
                     num_matches |-> STACK_CMD_NUM_COMMANDS],
                    line.word, 0)
        cmd  == SubSeq(line.word, 1,
                       IF Len(line.word) < CmdSize THEN Len(line.word) ELSE CmdSize)
        args == SubSeq(line.args, 1,
                       IF Len(line.args) < ArgsSize THEN Len(line.args) ELSE ArgsSize)
        \* cmd[cmd_pos] = '\0' and args[args_pos] = '\0' outside the arrays
        oob  == \/ \E k \in stack_cmd_cmd_writes(line.word) : k >= CmdSize
                \/ \E k \in stack_cmd_args_writes(line.args) : k >= ArgsSize
        cb   == CHOOSE i \in CmdIdx : m.match[i] /\ \A j \in 1 .. (i - 1) : ~ m.match[j]
        done == IF m.num_matches = 0
                THEN {[kind |-> "unknown", cb |-> 0, text |-> <<"unknown", cmd>>,
                       cont |-> TRUE, obj |-> heap[StackAddr], oob |-> FALSE]}
                ELSE IF m.num_matches = 1
                THEN {[kind |-> "run", cb |-> cb, text |-> r.text,
                       cont |-> r.cont, obj |-> r.obj, oob |-> r.oob] :
                         r \in stack_cmd_callback(cb, args)}
                ELSE {[kind |-> "incomplete", cb |-> 0,
                       text |-> <<"incomplete", cmd>>,
                       cont |-> TRUE, obj |-> heap[StackAddr], oob |-> FALSE]}
    IN  IF line.word = << >>
        THEN {[kind |-> "blank", cb |-> 0, text |-> << >>, ret |-> ~ line.eof,
               obj |-> heap[StackAddr], ub |-> "none"]}
        ELSE \* the line is handled, whatever was written outside an array
             {[kind |-> r.kind, cb |-> r.cb, text |-> r.text,
               ret |-> r.cont /\ ~ line.eof, obj |-> r.obj,
               ub |-> IF oob \/ r.oob THEN "corrupt" ELSE "none"] : r \in done}
             \* the write outside cmd or args ends the program
             \cup (IF oob
                   THEN {[kind |-> "crash", cb |-> 0, text |-> << >>, ret |-> FALSE,
                          obj |-> heap[StackAddr], ub |-> "crash"]}
                   ELSE {})
             \* the callback's write outside out_args ends the program
             \cup {[kind |-> r.kind, cb |-> r.cb, text |-> <<"crash">>,
                    ret |-> FALSE, obj |-> r.obj, ub |-> "crash"] :
                      r \in {q \in done : q.oob}}

\* Input lines.  The command words are the words up to MaxWord characters
\* that stop matching a command name at their last character at the
\* earliest, over the letters of the names in both cases and 'x'/'X', and all
\* words over 'p' and 'x' up to one character more than cmd holds.
MaxWord == 5

WordChars ==
    UNION {{g_stack_cmd_commands[q[1]][q[2]],
            toupper(g_stack_cmd_commands[q[1]][q[2]])} :
              q \in {r \in CmdIdx \X (1 .. MaxWord) :
                        r[2] <= Len(g_stack_cmd_commands[r[1]])}}
    \cup {120, 88}

\* The commands whose name starts with the word w, letter case ignored.
Candidates(w) ==
    {i \in CmdIdx :
        /\ Len(w) <= Len(g_stack_cmd_commands[i])
        /\ \A k \in 1 .. Len(w) :
              toupper(w[k]) = toupper(g_stack_cmd_commands[i][k])}

RECURSIVE NearWords(_)
NearWords(n) ==
    IF n = 1 THEN {<<c>> : c \in WordChars}
    ELSE {w \o <<c>> : w \in {v \in NearWords(n - 1) : Candidates(v) # {}},
                       c \in WordChars}

RECURSIVE PlainWords(_)
PlainWords(n) ==
    IF n = 0 THEN {<< >>}
    ELSE {w \o <<c>> : w \in PlainWords(n - 1), c \in {112, 120}}

Words ==
    UNION {NearWords(n) : n \in 1 .. MaxWord}
    \cup UNION {PlainWords(n) : n \in 0 .. (CmdSize + 1)}

\* The rest of the line: up to one character more than args holds.
Rests == {[j \in 1 .. n |-> 97] : n \in 0 .. (ArgsSize + 1)}

Lines == [word : Words, args : Rests, eof : BOOLEAN]

\* main has allocated the stack; the caller types the first line.
InitCmd ==
    /\ \E g \in GarbageBytes, f \in ForeignObjs :
          heap = [a \in Addr |-> IF a = StackAddr
                                 THEN stack_alloc(StackAddr, g) ELSE f]
    /\ allocd  = Addr
    /\ \E line \in Lines :
          last = Call("caller", StackAddr, line.word, line, NoCode, 0, NullPtr)
    /\ shadow  = << >>
    /\ netEntries = 0
    /\ netRefs = 1
    /\ ub      = "none"
    /\ srcmem  = <<17>>

\* stack_cmd_parse_line reads the line: entry_p is the command word, size_in
\* the line, ret the return value (1 for true), out_size the index of the
\* callback that was run (0 for none) and out_buf the parser's decision and
\* what was printed.  A write one past cmd, args or out_args lands in the
\* function's own frame, not in the malloc'ed stack object: where the program
\* survives it, the shell goes on with the stack as the callback left it.
ParseLine ==
    /\ last.op = "caller" /\ ub # "crash"
    /\ \E r \in stack_cmd_parse_line(last.size_in) :
          /\ heap' = Store(StackAddr, r.obj)
          /\ ub'   = IF r.ub = "none" THEN ub ELSE r.ub
          /\ last' = Call("parse_line", StackAddr, last.entry_p, last.size_in,
                          IF r.ret THEN 1 ELSE 0, r.cb, <<r.kind, r.text>>)
          /\ shadow' = IF r.cb = 4 /\ r.text[1] = "push"
                       THEN <<r.text[2]>> \o shadow
                       ELSE IF r.cb = 3 /\ r.obj # heap[StackAddr]
                       THEN Tail(shadow) ELSE shadow
          /\ netEntries' = heap'[StackAddr].num_entries
    /\ UNCHANGED <<allocd, netRefs, srcmem>>

\* The lines typed after the first: a command name and the rest of the line.
LaterLines ==
    [word : {g_stack_cmd_commands[i] : i \in CmdIdx}, args : Rests, eof : BOOLEAN]

\* main's loop goes round while stack_cmd_parse_line returns true: the
\* caller types the next line.
ReadLine ==
    /\ last.op = "parse_line" /\ last.ret = 1 /\ ub # "crash"
    /\ \E line \in LaterLines :
          last' = Call("caller", StackAddr, line.word, line, NoCode, 0, NullPtr)
    /\ UNCHANGED <<heap, allocd, shadow, netEntries, netRefs, ub, srcmem>>

NextCmd == ParseLine \/ ReadLine

SpecCmd == InitCmd /\ [][NextCmd]_vars

TypeOK ==
    /\ allocd \subseteq Addr
    /\ ub \in {"none", "crash", "corrupt"}
    /\ \A a \in Addr : heap[a].buf_free_size \in 0 .. SIZE_MAX

(***************************************************************************)
(* Properties.                                                             *)
(***************************************************************************)
S == heap[StackAddr]

\* The caller's output buffer after n bytes of entry e were copied into it.
Filled(e) == [j \in 1 .. OutBufLen |-> IF j <= Len(e) THEN e[j] ELSE PoisonByte]

\* C1: strict LIFO.  A stack_pop on the stack that is given a buffer at
\* least as large as the most recently pushed, not yet popped entry returns
\* OK, the length of that entry and exactly its bytes.
C1_LIFO ==
    [][ ( /\ last'.op = "pop" /\ last'.h = StackAddr
          /\ last'.entry_p = OutBuf
          /\ shadow # << >>
          /\ last'.size_in >= 1 /\ last'.size_in >= Len(Head(shadow)) )
        => ( /\ last'.ret = STACK_E_OK
             /\ last'.out_size = Len(Head(shadow))
             /\ last'.out_buf = Filled(Head(shadow)) ) ]_vars

\* A pop has returned a two-byte entry while an older entry is still stored.
C1_Witness ==
    /\ last.op = "pop" /\ last.h = StackAddr /\ last.ret = STACK_E_OK
    /\ last.entry_p = OutBuf /\ last.out_size = 2
    /\ last.out_buf = Filled(<<34, 17>>)
    /\ Len(shadow) >= 1

\* C2: while the stack is live, stack_get_num_entries is the number of pushes
\* that returned OK minus the number of pops that returned OK.
C2_NumEntries ==
    (StackAddr \in allocd) => (stack_get_num_entries(StackAddr) = netEntries)

\* A pop has returned OK after two pushes had.
C2_Witness ==
    /\ StackAddr \in allocd
    /\ last.op = "pop" /\ last.h = StackAddr /\ last.ret = STACK_E_OK
    /\ netEntries = 1

\* C3: a peek or pop with a non-NULL buffer of declared capacity >= 1 that is
\* smaller than the top entry returns BUF_OVERFLOW, copies nothing and leaves
\* the stack as it was; a pop with a large enough buffer then still returns
\* that entry.
C3_BufTooSmall ==
    [][ ( /\ last'.op \in {"peek", "pop"} /\ last'.h = StackAddr
          /\ last'.entry_p = OutBuf
          /\ shadow # << >>
          /\ last'.size_in >= 1 /\ last'.size_in < Len(Head(shadow)) )
        => ( /\ last'.ret = STACK_E_BUF_OVERFLOW
             /\ last'.out_buf = OutBuf
             /\ last'.out_size = last'.size_in
             /\ heap' = heap
             /\ \A r \in stack_pop(StackAddr, OutBuf, OutBufLen)' :
                   r.ret = STACK_E_OK /\ r.out_buf = Filled(Head(shadow)) ) ]_vars

\* A pop was refused because its one-byte buffer is smaller than the top entry.
C3_Witness ==
    /\ last.op = "pop" /\ last.h = StackAddr /\ last.ret = STACK_E_BUF_OVERFLOW
    /\ last.size_in = 1
    /\ netEntries >= 1 /\ Len(Head(shadow)) = 2

\* C4: a push of an entry that fills the buffer exactly returns OK and leaves
\* no free space; with no free space left a push of any length >= 1 returns
\* FULL and changes nothing, so that a peek still returns the same top entry.
C4_CapacityBoundary ==
    [][ ( /\ last'.op = "push" /\ last'.h = StackAddr
          /\ last'.entry_p # NullPtr )
        => ( /\ (SizeW + last'.size_in = S.buf_free_size)
                   => (last'.ret = STACK_E_OK /\ S'.buf_free_size = 0)
             /\ (S.buf_free_size = 0 /\ last'.size_in >= 1)
                   => ( /\ last'.ret = STACK_E_FULL
                        /\ heap' = heap
                        /\ stack_peek(StackAddr, OutBuf, OutBufLen)'
                             = stack_peek(StackAddr, OutBuf, OutBufLen) ) ) ]_vars

\* A one-byte push was refused on a buffer that several pushes filled exactly.
C4_Witness ==
    /\ last.op = "push" /\ last.h = StackAddr /\ last.ret = STACK_E_FULL
    /\ last.size_in = 1 /\ last.entry_p # NullPtr
    /\ S.buf_free_size = 0 /\ netEntries >= 2

\* C5: on a freshly allocated stack a push of an entry longer than the whole
\* buffer returns FULL and num_entries stays 0, up to the largest size_t.
C5_OversizeFull ==
    [][ ( /\ last.op = "alloc" /\ last.h = StackAddr
          /\ last'.op = "push" /\ last'.h = StackAddr
          /\ last'.entry_p # NullPtr
          /\ last'.size_in > BufSize )
        => ( last'.ret = STACK_E_FULL /\ S'.num_entries = 0 ) ]_vars

\* C6: a push of length 0 on a valid stack returns INVALID and changes
\* nothing, with or without a data pointer.
C6_ZeroLengthInvalid ==
    [][ ( /\ last'.op = "push" /\ last'.h = StackAddr
          /\ last'.size_in = 0 )
        => ( last'.ret = STACK_E_INVALID /\ heap' = heap ) ]_vars

\* C7: a peek or pop on a valid stack without entries, called with arguments
\* the functions accept, returns EMPTY and changes nothing.
C7_Empty ==
    [][ ( /\ last'.op \in {"peek", "pop"} /\ last'.h = StackAddr
          /\ netEntries = 0
          /\ last'.size_in # NoSizePtr
          /\ (last'.entry_p = NullPtr \/ last'.size_in >= 1) )
        => ( /\ last'.ret = STACK_E_EMPTY
             /\ last'.out_buf = last'.entry_p
             /\ last'.out_size = last'.size_in
             /\ heap' = heap ) ]_vars

\* A pop returned EMPTY on a stack that pops emptied after it held entries.
C7_Witness ==
    /\ last.op = "pop" /\ last.h = StackAddr /\ last.ret = STACK_E_EMPTY
    /\ netEntries = 0
    /\ S.buf_free_size = BufSize
    /\ \E j \in BufIdx : S.buf[j] \in DataBytes

\* C8: a peek changes no field of the stack, whatever its arguments, and the
\* same peek made again returns the same code, size and bytes.
C8_PeekPure ==
    /\ [][ (last'.op = "peek") => (heap' = heap /\ allocd' = allocd) ]_vars
    /\ [] ( (last.op = "peek" /\ ub = "none")
            => \A r \in stack_peek(last.h, last.entry_p, last.size_in) :
                  /\ r.ret = last.ret
                  /\ r.out_size = last.out_size
                  /\ r.out_buf = last.out_buf )

\* A peek has copied a two-byte top entry out of a stack holding two entries.
C8_Witness ==
    /\ last.op = "peek" /\ last.h = StackAddr /\ last.ret = STACK_E_OK
    /\ last.out_size = 2 /\ last.out_buf = Filled(<<17, 17>>)
    /\ netEntries = 2 /\ S.refcount = 2

\* C9: while the stack is live its reference count is 1 + (incr_refcount
\* calls that returned OK) - (stack_free calls) and at least 1; a stack_free
\* releases the storage exactly when it brings that count to 0.
C9_RefcountLifecycle ==
    /\ [] ( (StackAddr \in allocd)
            => (stack_get_refcount(StackAddr) = netRefs /\ netRefs >= 1) )
    /\ [][ (StackAddr \in allocd /\ StackAddr \notin allocd')
           <=> ( /\ \/ last'.op = "free"
                    \/ last'.op = "free_and_clear" /\ last'.size_in # NULL
                 /\ last'.h = StackAddr /\ netRefs' = 0 ) ]_vars

\* After an incr_refcount a first stack_free has left the storage allocated.
C9_Witness ==
    /\ last.op = "free" /\ last.h = StackAddr
    /\ StackAddr \in allocd
    /\ netRefs = 1 /\ S.refcount = 1

\* C10: stack_free on an invalid stack (NULL, or a non-NULL handle whose
\* self pointer does not match) decrements no count and releases no storage.
C10_FreeInvalidNoop ==
    [][ ( /\ last'.op = "free"
          /\ ~ stack_is_valid(last'.h) )
        => ( heap' = heap /\ allocd' = allocd ) ]_vars

\* A handle that is NULL or whose self pointer does not point to the object.
Mismatch(h) == (h = NULL) \/ (heap[h].self # h)

\* The fields of the object that the call c reads or writes.
CallFields(c) ==
    CASE c.op = "push" -> stack_push_fields(c.h, c.entry_p, c.size_in)
      [] c.op = "peek" -> stack_peek_fields(c.h, c.entry_p, c.size_in)
      [] c.op = "pop"  -> stack_pop_fields(c.h, c.entry_p, c.size_in)
      [] c.op = "incr_refcount" -> stack_incr_refcount_fields(c.h)
      [] OTHER -> {}

\* C11: push, pop, peek and incr_refcount on an invalid handle (NULL, or self
\* pointer mismatch) return INVALID, write nothing and access no field of the
\* object but the self pointer.
C11_InvalidHandle ==
    [][ ( /\ last'.op \in {"push", "pop", "peek", "incr_refcount"}
          /\ Mismatch(last'.h) )
        => ( /\ last'.ret = STACK_E_INVALID
             /\ heap' = heap /\ allocd' = allocd
             /\ last'.op \in {"pop", "peek"}
                   => (last'.out_size = last'.size_in /\ last'.out_buf = last'.entry_p)
             /\ CallFields(last') \subseteq {"self"} ) ]_vars

\* A pop on the foreign object, which looks like a stack with one entry, was
\* refused.
C11_Witness ==
    /\ last.op = "pop" /\ last.h = ForeignAddr /\ last.ret = STACK_E_INVALID
    /\ last.entry_p = OutBuf
    /\ heap[ForeignAddr].num_entries = 1 /\ heap[ForeignAddr].self # ForeignAddr

\* C12: stack_get_num_entries and stack_get_refcount return 0 for an invalid
\* handle and the stored count for a valid one, and change nothing.
C12_Queries ==
    [][ ( last'.op \in {"get_num_entries", "get_refcount"} )
        => ( /\ last'.out_size =
                  IF Mismatch(last'.h) THEN 0
                  ELSE IF last'.op = "get_num_entries"
                       THEN heap[last'.h].num_entries
                       ELSE heap[last'.h].refcount
             /\ heap' = heap /\ allocd' = allocd ) ]_vars

\* The entry count of the foreign object, whose num_entries field is 1, was
\* reported as 0.
C12_Witness ==
    /\ last.op = "get_num_entries" /\ last.h = ForeignAddr
    /\ last.out_size = 0
    /\ heap[ForeignAddr].num_entries = 1

\* C13: the handle returned by a successful allocation is valid, holds no
\* entries, has the whole buffer free and a reference count of 1, so that a
\* first peek or pop returns EMPTY.
C13_AllocResult ==
    (last.op = "alloc" /\ last.h # NULL)
    => ( /\ stack_is_valid(last.h)
         /\ heap[last.h].self = last.h
         /\ heap[last.h].num_entries = 0
         /\ heap[last.h].buf_free_size = BufSize
         /\ heap[last.h].refcount = 1
         /\ stack_get_refcount(last.h) = 1
         /\ \A r \in stack_peek(last.h, OutBuf, OutBufLen) : r.ret = STACK_E_EMPTY
         /\ \A r \in stack_pop(last.h, NullPtr, 0) :
               r.ret = STACK_E_EMPTY /\ r.obj = heap[last.h] )

\* A stack was allocated again after the earlier one had been used and released.
C13_Witness ==
    /\ last.op = "alloc" /\ last.h = StackAddr
    /\ StackAddr \in allocd /\ ForeignAddr \notin allocd

\* C14: stack_incr_refcount on a count that is the largest unsigned int
\* returns MAX_REFCOUNT and leaves the count unchanged; on every smaller count
\* it returns OK and raises the count by exactly 1.
C14_RefcountSaturates ==
    [][ ( last'.op = "incr_refcount" /\ last'.h = StackAddr )
        => IF S.refcount = RefMod - 1
           THEN last'.ret = STACK_E_MAX_REFCOUNT /\ heap' = heap
           ELSE /\ last'.ret = STACK_E_OK
                /\ heap' = [heap EXCEPT ![StackAddr].refcount = S.refcount + 1] ]_vars

\* An increment was refused at the largest count.
C14_Witness ==
    /\ last.op = "incr_refcount" /\ last.h = StackAddr
    /\ last.ret = STACK_E_MAX_REFCOUNT
    /\ S.refcount = RefMod - 1 /\ netRefs = RefMod - 1

\* Bytes of the buffer used by the entries e of a stack.
RECURSIVE UsedSize(_)
UsedSize(e) == IF e = << >> THEN 0 ELSE SizeW + Len(Head(e)) + UsedSize(Tail(e))

\* C15: a pop returns the code, size and bytes that a peek returns in the
\* same state; it changes the stack only when the code is OK, and then the
\* entry count and the free space are those from before the push of the
\* removed entry and the entry beneath is the top.
C15_PopIsPeekThenRemove ==
    [][ ( last'.op = "pop" )
        => ( /\ \E r \in stack_peek(last'.h, last'.entry_p, last'.size_in) :
                   /\ r.ret = last'.ret
                   /\ r.out_size = last'.out_size
                   /\ r.out_buf = last'.out_buf
             /\ (last'.ret # STACK_E_OK) => (heap' = heap)
             /\ (last'.ret = STACK_E_OK)
                   => ( /\ last'.h = StackAddr /\ shadow # << >>
                        /\ S'.num_entries = S.num_entries - 1
                        /\ S'.num_entries = Len(Tail(shadow))
                        /\ S'.buf_free_size
                              = S.buf_free_size + SizeW + Len(Head(shadow))
                        /\ S'.buf_free_size = BufSize - UsedSize(Tail(shadow))
                        /\ S'.refcount = S.refcount /\ S'.self = S.self
                        /\ (Tail(shadow) # << >>)
                              => \A r \in stack_peek(StackAddr, OutBuf, OutBufLen)' :
                                    /\ r.ret = STACK_E_OK
                                    /\ r.out_buf = Filled(Head(Tail(shadow))) ) ) ]_vars

\* A pop has removed a one-byte entry and uncovered the entry beneath it.
C15_Witness ==
    /\ last.op = "pop" /\ last.h = StackAddr /\ last.ret = STACK_E_OK
    /\ last.out_size = 1 /\ last.out_buf = Filled(<<17>>)
    /\ netEntries = 1 /\ shadow = << <<34>> >>

\* C16: stack_peek and stack_pop called with a NULL output buffer on a
\* non-empty stack return OK and store the size of the top entry through the
\* size parameter whatever it held on entry, 0 included; pop also removes the
\* entry.
C16_SizeOnlyQuery ==
    [][ ( /\ last'.op \in {"peek", "pop"} /\ last'.h = StackAddr
          /\ last'.entry_p = NullPtr /\ last'.size_in # NoSizePtr
          /\ shadow # << >> )
        => ( /\ last'.ret = STACK_E_OK
             /\ last'.out_size = Len(Head(shadow))
             /\ last'.out_buf = NullPtr
             /\ IF last'.op = "pop"
                THEN shadow' = Tail(shadow) /\ S'.num_entries = S.num_entries - 1
                ELSE heap' = heap /\ shadow' = shadow ) ]_vars

\* A peek with a NULL buffer and a size parameter holding 0 reported the two
\* bytes of the top entry.
C16_Witness ==
    /\ last.op = "peek" /\ last.h = StackAddr /\ last.ret = STACK_E_OK
    /\ last.entry_p = NullPtr /\ last.size_in = 0 /\ last.out_size = 2
    /\ shadow # << >> /\ Len(Head(shadow)) = 2

\* C17: stack_peek on a valid non-empty stack with a NULL size parameter and a
\* NULL buffer returns OK and skips only the write of the size.
C17_SizePtrOptional ==
    [][ ( /\ last'.op = "peek" /\ last'.h = StackAddr
          /\ last'.entry_p = NullPtr /\ last'.size_in = NoSizePtr
          /\ shadow # << >> )
        => ( last'.ret = STACK_E_OK /\ heap' = heap ) ]_vars

\* C18: stack_peek and stack_pop called with a non-NULL output buffer of
\* declared capacity 0 return INVALID and leave the stack unchanged, on an
\* empty stack as on a non-empty one.
C18_ZeroCapacityInvalid ==
    [][ ( /\ last'.op \in {"peek", "pop"} /\ last'.h = StackAddr
          /\ last'.entry_p # NullPtr /\ last'.size_in = 0 )
        => ( /\ last'.ret = STACK_E_INVALID
             /\ heap' = heap /\ shadow' = shadow
             /\ last'.out_size = 0 /\ last'.out_buf = last'.entry_p ) ]_vars

\* A pop into a buffer of capacity 0 was refused on an empty stack.
C18_Witness ==
    /\ last.op = "pop" /\ last.h = StackAddr /\ last.ret = STACK_E_INVALID
    /\ last.entry_p = OutBuf /\ last.size_in = 0
    /\ StackAddr \in allocd /\ shadow = << >> /\ S.num_entries = 0

\* C19: stack_push with a NULL data pointer and a length above 0 returns
\* INVALID and leaves the stack unchanged, whatever free space remains.
C19_NullDataInvalid ==
    [][ ( /\ last'.op = "push" /\ last'.h = StackAddr
          /\ last'.entry_p = NullPtr /\ last'.size_in > 0 )
        => ( /\ last'.ret = STACK_E_INVALID
             /\ heap' = heap /\ shadow' = shadow ) ]_vars

\* A push of a NULL pointer with a length that the free space cannot hold was
\* refused as INVALID.
C19_Witness ==
    /\ last.op = "push" /\ last.h = StackAddr /\ last.ret = STACK_E_INVALID
    /\ last.entry_p = NullPtr /\ last.size_in = 1
    /\ S.buf_free_size < SizeW + 1

C21_CopySemantics ==
    /\ [] ( (StackAddr \in allocd /\ ub = "none" /\ shadow # << >>)
            => \A r \in stack_peek(StackAddr, OutBuf, OutBufLen) :
                  /\ r.ret = STACK_E_OK
                  /\ r.out_size = Len(Head(shadow))
                  /\ r.out_buf = Filled(Head(shadow)) )
    /\ [][ ( /\ srcmem' # srcmem
             /\ StackAddr \in allocd /\ shadow # << >> )
           => \A j \in 1 .. Len(Head(shadow)) :
                 S'.buf[S.buf_free_size + SizeW + j - 1] = Head(shadow)[j] ]_vars
    /\ [][ ( /\ last.op = "peek" /\ last.h = StackAddr /\ last.ret = STACK_E_OK
             /\ last.entry_p = OutBuf /\ last.out_buf # OutBuf
             /\ last'.op \in {"peek", "pop"} /\ last'.h = StackAddr
             /\ last'.entry_p = OutBuf /\ last'.size_in = OutBufLen )
           => ( /\ last'.ret = STACK_E_OK
                /\ last'.out_buf = last.out_buf
                /\ last'.out_buf = Filled(Head(shadow)) ) ]_vars

\* A peek returned the byte pushed first although the caller has since
\* refilled its source object with other bytes for a later push.
C21_Witness ==
    /\ last.op = "peek" /\ last.h = StackAddr /\ last.ret = STACK_E_OK
    /\ last.entry_p = OutBuf /\ last.out_buf = Filled(<<17>>)
    /\ shadow = << <<17>> >>
    /\ srcmem = <<34, 17>>

\* C22: stack_print on an invalid stack (NULL, or self pointer mismatch)
\* prints only the abbreviated message for an invalid stack and reads no field
\* of the object but the self pointer.
C22_PrintInvalid ==
    [][ ( last'.op = "print" /\ Mismatch(last'.h) )
        => ( /\ last'.out_buf = << <<"invalid", last'.h>> >>
             /\ ub' = "none"
             /\ stack_print_fields(last'.h) \subseteq {"self"} ) ]_vars

\* C23: stack_err_e_to_string returns "???" exactly for the values outside
\* 0 .. STACK_NUM_ERR - 1, negative ones included, and for each defined code a
\* name that is not "???" and is the name of no other code.
C23_ErrToString ==
    (last.op = "err_to_string")
    => LET err == last.size_in
           str == last.out_buf[1]
       IN  /\ (str = "???") <=> (err \notin 0 .. (STACK_NUM_ERR - 1))
           /\ (err \in 0 .. (STACK_NUM_ERR - 1))
                 => \A e \in (0 .. (STACK_NUM_ERR - 1)) \ {err} :
                       stack_err_e_to_string(e) # str

\* The string for the negative value -1 was asked for and is "???".
C23_Witness ==
    /\ last.op = "err_to_string" /\ last.size_in = 0 - 1
    /\ last.out_buf = << "???" >>

\* C24: in every state reached by pushes, pops and peeks with any arguments,
\* failing calls included, the free size lies in 0 .. capacity and capacity
\* minus free size is the sum over the stored entries of the width of the
\* size field plus the length of the data.
C24_FreeSpaceAccounting ==
    (StackAddr \in allocd)
    => ( /\ S.buf_free_size >= 0 /\ S.buf_free_size <= BufSize
         /\ BufSize - S.buf_free_size = UsedSize(shadow) )

\* A push was refused as FULL on a stack that holds two entries and has one
\* byte free.
C24_Witness ==
    /\ StackAddr \in allocd
    /\ last.op = "push" /\ last.h = StackAddr /\ last.ret = STACK_E_FULL
    /\ Len(shadow) = 2 /\ S.buf_free_size = 1

\* Offset at which the packing puts the 'size' field of the i-th stored
\* entry, counted from the top, and the offset after the last entry for
\* i = Len(shadow) + 1.
RECURSIVE PackedOff(_)
PackedOff(i) ==
    IF i = 1 THEN S.buf_free_size
    ELSE PackedOff(i - 1) + SizeW + Len(shadow[i - 1])

\* C25: in every reachable state the walk that stack_print performs finds the
\* 'size' field of the top entry at offset buf_free_size and that of each
\* further entry right after the data of the entry before it; the i-th entry
\* of the walk is the i-th most recently pushed entry not yet popped, with its
\* size and bytes; and after num_entries steps the walk is at the end of the
\* buffer.
C25_Packing ==
    (StackAddr \in allocd)
    => /\ S.num_entries = Len(shadow)
       /\ PackedOff(Len(shadow) + 1) = BufSize
       /\ \A r \in stack_print(StackAddr) :
             /\ r.ub = "none"
             /\ Len(r.out) = Len(shadow) + 2
             /\ r.out[1][1] = "header" /\ r.out[Len(r.out)] = <<"footer">>
             /\ \A i \in 1 .. Len(shadow) :
                   r.out[i + 1] = <<"entry", PackedOff(i), Len(shadow[i]), shadow[i]>>
       /\ \A i \in 1 .. Len(shadow) :
             /\ LoadSize(S.buf, PackedOff(i)) = Len(shadow[i])
             /\ \A j \in 1 .. Len(shadow[i]) :
                   S.buf[PackedOff(i) + SizeW + j - 1] = shadow[i][j]

\* stack_print has walked a stack of two entries with data.
C25_Witness ==
    /\ last.op = "print" /\ last.h = StackAddr
    /\ Len(last.out_buf) = 4
    /\ shadow = << <<34>>, <<17>> >>
    /\ last.out_buf[2] = <<"entry", 0, 1, <<34>> >>
    /\ last.out_buf[3] = <<"entry", SizeW + 1, 1, <<17>> >>

\* C26: a push on a valid stack with a data pointer and a length of at least
\* 1 returns FULL exactly when the width of the size field plus the length is
\* greater than the free space, and OK otherwise; a FULL push changes nothing,
\* and a push right after a successful pop returns OK as soon as the free
\* space has reached the width of the size field plus the length.
C26_FullExactly ==
    /\ [][ ( /\ last'.op = "push" /\ last'.h = StackAddr
             /\ last'.entry_p # NullPtr /\ last'.size_in >= 1 )
           => ( /\ (last'.ret = STACK_E_FULL)
                      <=> (SizeW + last'.size_in > S.buf_free_size)
                /\ (last'.ret = STACK_E_OK)
                      <=> (SizeW + last'.size_in <= S.buf_free_size)
                /\ (last'.ret = STACK_E_FULL) => (heap' = heap) ) ]_vars
    /\ [][ ( /\ last.op = "pop" /\ last.h = StackAddr /\ last.ret = STACK_E_OK
             /\ last'.op = "push" /\ last'.h = StackAddr
             /\ last'.entry_p # NullPtr /\ last'.size_in >= 1
             /\ S.buf_free_size >= SizeW + last'.size_in )
           => ( /\ last'.ret = STACK_E_OK
                /\ S'.buf_free_size = S.buf_free_size - SizeW - last'.size_in ) ]_vars

\* A push of two bytes was refused as FULL with one byte too few free.
C26_Witness ==
    /\ last.op = "push" /\ last.h = StackAddr /\ last.ret = STACK_E_FULL
    /\ last.entry_p # NullPtr /\ last.size_in = 2
    /\ S.buf_free_size = SizeW + 1 /\ StackAddr \in allocd

\* C27: stack_push, stack_pop and stack_peek never change the reference
\* count or the self pointer; stack_incr_refcount and a stack_free that does
\* not bring the count to 0 never change num_entries, the free size or the
\* buffer; a stack shared by two holders keeps all its entries, in order,
\* after one holder has freed it.
C27_Separation ==
    /\ [][ ( last'.op \in {"push", "pop", "peek"} )
           => ( /\ allocd' = allocd
                /\ \A a \in Addr : /\ heap'[a].refcount = heap[a].refcount
                                   /\ heap'[a].self = heap[a].self ) ]_vars
    /\ [][ ( /\ \/ last'.op \in {"incr_refcount", "free"}
                \/ last'.op = "free_and_clear" /\ last'.size_in # NULL
             /\ last'.h = StackAddr
             /\ S'.refcount # 0 )
           => ( /\ StackAddr \in allocd'
                /\ S'.num_entries = S.num_entries
                /\ S'.buf_free_size = S.buf_free_size
                /\ S'.buf = S.buf
                /\ S'.self = S.self
                /\ shadow' = shadow
                /\ S'.num_entries = Len(shadow)
                /\ \A r \in stack_print(StackAddr)' :
                      \A i \in 1 .. Len(shadow) :
                         /\ r.out[i + 1][1] = "entry"
                         /\ r.out[i + 1][4] = shadow[i] ) ]_vars

\* One of two holders has freed a stack of two entries; the other holder's
\* reference and both entries remain.
C27_Witness ==
    /\ last.op = "free" /\ last.h = StackAddr
    /\ StackAddr \in allocd /\ S.refcount = 1 /\ netRefs = 1
    /\ S.num_entries = 2 /\ shadow = << <<34>>, <<17>> >>

\* C28: the four parameters of stack_alloc_custom have no effect.  The stack
\* made by an allocation is the one every other parameter tuple gives, so all
\* later results are the same; and a push that fits the buffer returns OK
\* also when it exceeds what the parameters allow: the buffer capacity is the
\* only limit enforced.
C28_ParamsIgnored ==
    /\ [][ ( last'.op = "alloc" /\ last'.h = StackAddr )
           => \E g \in GarbageBytes :
                 /\ S' = stack_alloc(StackAddr, g)
                 /\ \A q \in AllocParams :
                       S' = stack_alloc_custom(StackAddr, g, q[1], q[2], q[3], q[4]) ]_vars
    /\ [][ ( /\ last'.op = "push" /\ last'.h = StackAddr
             /\ last'.entry_p # NullPtr /\ last'.size_in >= 1
             /\ SizeW + last'.size_in <= S.buf_free_size
             /\ \/ S.num_entries + 1 > TightParams[1]
                \/ last'.size_in > TightParams[2]
                \/ BufSize - S.buf_free_size + SizeW + last'.size_in > TightParams[4] )
           => ( last'.ret = STACK_E_OK /\ S'.num_entries = S.num_entries + 1 ) ]_vars

\* A stack was allocated with limits of one entry of one byte; it has the
\* whole buffer free and accepts an entry of two bytes.
C28_Witness ==
    /\ last.op = "alloc" /\ last.h = StackAddr /\ last.entry_p = TightParams
    /\ StackAddr \in allocd /\ S.buf_free_size = BufSize
    /\ \A r \in stack_push(StackAddr, <<34, 17>>, 2) : r.ret = STACK_E_OK

\* C29: when the top entry has no data, a peek or pop with a NULL buffer or
\* with a non-NULL buffer of capacity >= 1 returns OK and size 0, copies no
\* byte and never returns BUF_OVERFLOW; the pop gives back exactly the width
\* of the size field and the entry beneath becomes the top.
C29_ZeroLengthTop ==
    [][ ( /\ last'.op \in {"peek", "pop"} /\ last'.h = StackAddr
          /\ shadow # << >> /\ Head(shadow) = << >>
          /\ last'.size_in # NoSizePtr
          /\ (last'.entry_p = NullPtr \/ last'.size_in >= 1) )
        => ( /\ last'.ret = STACK_E_OK
             /\ last'.out_size = 0
             /\ last'.out_buf = last'.entry_p
             /\ IF last'.op = "peek"
                THEN heap' = heap
                ELSE /\ S'.buf_free_size = S.buf_free_size + SizeW
                     /\ S'.num_entries = S.num_entries - 1
                     /\ S'.buf = S.buf
                     /\ (Tail(shadow) # << >>)
                           => \A r \in stack_peek(StackAddr, OutBuf, OutBufLen)' :
                                 /\ r.ret = STACK_E_OK
                                 /\ r.out_buf = Filled(Head(Tail(shadow))) ) ]_vars

\* A pop into a buffer of capacity 1 has removed a top entry without data and
\* uncovered a one-byte entry.
C29_Witness ==
    /\ last.op = "pop" /\ last.h = StackAddr /\ last.ret = STACK_E_OK
    /\ last.entry_p = OutBuf /\ last.size_in = 1
    /\ last.out_size = 0 /\ last.out_buf = OutBuf
    /\ shadow = << <<17>> >> /\ S.buf_free_size = BufSize - SizeW - 1

\* C30: on a line that fits the cmd and args arrays, the command word runs
\* the callback of a command if and only if it is a non-empty prefix, letter
\* case ignored, of that command's name and of no other; a prefix of several names is reported as
\* incomplete and a prefix of no name (a full name followed by more
\* characters included) as unknown, and neither runs anything.
C30_CommandMatching ==
    [][ ( /\ last'.op = "parse_line"
          /\ Len(last'.entry_p) < CmdSize
          /\ Len(last'.size_in.args) < ArgsSize )
        => LET w == last'.entry_p
               P == IF w = << >> THEN {} ELSE Candidates(w)
           IN  /\ (last'.out_size # 0) <=> (Cardinality(P) = 1)
               /\ (last'.out_size # 0)
                     => (P = {last'.out_size} /\ last'.out_buf[1] = "run")
               /\ (Cardinality(P) > 1)
                     => (last'.out_buf = <<"incomplete", <<"incomplete", w>> >>
                         /\ heap' = heap)
               /\ (P = {} /\ w # << >>)
                     => (last'.out_buf = <<"unknown", <<"unknown", w>> >>
                         /\ heap' = heap)
               /\ (w = << >>) => (last'.out_buf[1] = "blank" /\ heap' = heap) ]_vars

\* The word quitX was reported as unknown.
C30_Witness ==
    /\ last.op = "parse_line" /\ last.entry_p = <<113, 117, 105, 116, 88>>
    /\ last.out_size = 0 /\ last.out_buf[1] = "unknown"
    /\ S.num_entries = 0

\* C31: every write stack_cmd_parse_line makes into cmd and args for the
\* line it read, the terminators included, is at an index inside the array.
C31_WritesInside ==
    ( last.op = "parse_line" /\ last.entry_p # << >> )
    => /\ \A k \in stack_cmd_cmd_writes(last.size_in.word) : k < CmdSize
       /\ \A k \in stack_cmd_args_writes(last.size_in.args) : k < ArgsSize

\* C32: the shell's peek and pop commands on a stack that holds an entry
\* succeed, and write the string terminator at an index inside out_args.
C32_OutputInside ==
    [][ ( /\ last'.op = "parse_line" /\ last'.out_size \in {2, 3}
          /\ shadow # << >> )
        => /\ last'.out_buf[2][1] \in {"peek", "pop"}
           /\ Len(last'.out_buf[2][2]) < OutArgsSize ]_vars

\* C33: in the walk stack_print makes from the top entry of a non-empty
\* stack, the call of stack_get_next_entry on the bottom entry returns false
\* with both pointers NULL, every call that returns true leaves the size
\* pointer at a size field that lies wholly inside the buffer, and the calls
\* that return true are num_entries - 1.
C33_NextEntryExists ==
    ( /\ last.op = "print" /\ last.h = StackAddr /\ ub = "none"
      /\ StackAddr \in allocd /\ shadow # << >> )
    => LET top == stack_get_top_entry(S)
           w   == stack_print_walk(S, 0, top.size_p, top.data_p)
       IN  /\ Len(w) = S.num_entries
           /\ w[Len(w)] = [ret |-> FALSE, size_p |-> NullOff, data_p |-> NullOff]
           /\ \A k \in 1 .. Len(w) : w[k].ret => (w[k].size_p + SizeW <= BufSize)
           /\ Cardinality({k \in 1 .. Len(w) : w[k].ret}) = S.num_entries - 1

====
